---------------------------- MODULE Spec2Model ----------------------------
(***************************************************************************)
(* The live-data acquisition pipeline of streamlit_app.py: the rate gate,  *)
(* the st.cache_data result cache, the three source adapters (Yahoo        *)
(* markets, Yahoo commodity futures, World Bank), the snapshot assembler   *)
(* get_current_accurate_data and the script run main() with its two        *)
(* cache-clearing buttons.                                                 *)
(*                                                                         *)
(* Units.  Time is counted in tenths of a second (the smallest interval of *)
(* the source is the 0.1 s Yahoo spacing); instant 0 is a Monday 00:00:00. *)
(* Money and percentages are counted in hundredths (85.29 is 8529).        *)
(* A Python dict is a function whose DOMAIN is its key set (d[k] = v is    *)
(* (k :> v) @@ d, d.update(e) is e @@ d); None / an optional value is the  *)
(* empty sequence, a present value v is <<v>>.                             *)
(***************************************************************************)
EXTENDS Integers, Sequences, FiniteSets, TLC

VARIABLES
    now,            \* the wall clock (time.time() / datetime.now())
    secrets,        \* TRUE iff st.secrets holds both API keys
    cache,          \* st.cache_data: key -> [value, inserted_at]
    session_state,  \* st.session_state: {} or {"api_usage" -> counters}
    data_fetcher,   \* fields of the current ComprehensiveDataFetcher
    current_data,   \* the snapshot the last script run displayed
    page,           \* how the last script run ended
    rerun_pending,  \* st.rerun() was called and the rerun has not run yet
    runs,           \* number of script runs so far
    requests,       \* history: network requests issued, per source
    gate,           \* history: returns of rate_limit_check, per source
    calls,          \* history: the calls of each cached operation
    df,             \* the series handed to filter_by_period
    selected_period,\* the period label handed to filter_by_period
    filtered,       \* what filter_by_period(df, selected_period) returned
    refiltered,     \* what filter_by_period(filtered, selected_period) returned
    applied         \* number of filter_by_period calls made so far

filter_vars == << df, selected_period, filtered, refiltered, applied >>

vars == << now, secrets, cache, session_state, data_fetcher, current_data,
           page, rerun_pending, runs, requests, gate, calls, filter_vars >>

-----------------------------------------------------------------------------
(* Bounds of the model.                                                    *)

\* Script runs explored.
MaxRuns == 3

\* Commodity symbols whose outcome may differ from the common outcome of
\* the other symbols in one fetch (SnapshotSpec).
MaxDeviations == 1

\* The daily ceiling the per-day budget claim is stated with (the source
\* names none).
DailyCeiling == 10

\* Rows of a series handed to filter_by_period (FilterSpec), next to the
\* 24-row series of generate_historical_data.
MaxRows == 2

-----------------------------------------------------------------------------
(* Clock.                                                                  *)

DAY == 24 * 60 * 60 * 10

\* datetime.now().weekday(): Monday = 0 ... Sunday = 6
weekday(t) == (t \div DAY) % 7

\* datetime.now().date()
date(t) == t \div DAY

\* datetime.now().strftime("%Y-%m-%d %H:%M:%S"): the instant cut to seconds
strftime(t) == t \div 10

\* Instant 0 is Monday 2023-01-02 00:00:00.  The proleptic Gregorian
\* calendar of datetime: the day number (days since 1970-01-01) of a civil
\* date and back.
days_from_civil(y, m, d) ==
    LET yy == IF m <= 2 THEN y - 1 ELSE y
        era == yy \div 400
        yoe == yy - era * 400
        doy == (153 * (IF m > 2 THEN m - 3 ELSE m + 9) + 2) \div 5 + d - 1
        doe == yoe * 365 + yoe \div 4 - yoe \div 100 + doy
    IN  era * 146097 + doe - 719468

civil_from_days(z) ==
    LET zz == z + 719468
        era == zz \div 146097
        doe == zz - era * 146097
        yoe == (doe - doe \div 1460 + doe \div 36524 - doe \div 146096) \div 365
        doy == doe - (365 * yoe + yoe \div 4 - yoe \div 100)
        mp == (5 * doy + 2) \div 153
        d == doy - (153 * mp + 2) \div 5 + 1
        m == IF mp < 10 THEN mp + 3 ELSE mp - 9
    IN  [ year |-> yoe + era * 400 + (IF m <= 2 THEN 1 ELSE 0), month |-> m, day |-> d ]

EpochDay == days_from_civil(2023, 1, 2)

\* the instant of a civil date and a time of day (tenths of a second)
Timestamp(y, m, d, tod) == (days_from_civil(y, m, d) - EpochDay) * DAY + tod

days_in_month(y, m) == days_from_civil(IF m = 12 THEN y + 1 ELSE y,
                                       IF m = 12 THEN 1 ELSE m + 1, 1)
                       - days_from_civil(y, m, 1)

\* t - pd.DateOffset(months=k): k calendar months back, the day cut to the
\* length of the month reached, the time of day kept
minus_months(t, k) ==
    LET c == civil_from_days(EpochDay + (t \div DAY))
        n == c.year * 12 + (c.month - 1) - k
        y == n \div 12
        m == (n % 12) + 1
        d == IF c.day > days_in_month(y, m) THEN days_in_month(y, m) ELSE c.day
    IN  Timestamp(y, m, d, t % DAY)

\* Instants at which the process may be started: a Wednesday noon, and 0.4 s
\* before the Friday/Saturday and the Sunday/Monday midnights.
StartTimes == { 2 * DAY + (DAY \div 2), 5 * DAY - 4, 7 * DAY - 4 }

\* Idle time between the end of a script run and the start of the next.
Delays == { 3, 17999, 18000, 864000 }

\* Time one network request takes (also the time that passes between the
\* commodity adapter's return and the assembler's own clock read).
Latency == { 0, 1 }

-----------------------------------------------------------------------------
(* Python values.                                                          *)

EmptyDict == << >>
None == << >>
Some(v) == << v >>

\* d.get(k, default)
get(d, k, default) == IF k \in DOMAIN d THEN d[k] ELSE default

\* bool(d) of a dict
truthy(d) == DOMAIN d # {}

-----------------------------------------------------------------------------
(* Hard-coded values of the source, in hundredths.                         *)

\* get_current_accurate_data: the base record
BaseData ==
    [ inflation_rate |-> 316, gdp_growth_rate |-> 650, unemployment_rate |-> 510,
      interest_rate |-> 600, bond_yield_10y |-> 618, fiscal_deficit |-> 480,
      foreign_reserves |-> 64500, industrial_production |-> 10520,
      consumer_price_index |-> 18540, current_account_balance |-> -180 ]

\* get_current_accurate_data: fallback market values
FallbackMarket == [ exchange_rate |-> 8529, nifty |-> 2481500, sensex |-> 8157000 ]

\* the commodity table that the source repeats four times
WeekendPrices ==
    [ gold |-> 328970, silver |-> 3298, crude_oil |-> 7772, sugar |-> 1945,
      coffee |-> 23450, wheat |-> 61225, corn |-> 45675 ]

\* get_yahoo_finance_data: (snapshot key, ticker) in fetch order
MarketTickers ==
    << <<"nifty", "^NSEI">>, <<"sensex", "^BSESN">>, <<"exchange_rate", "USDINR=X">> >>

\* get_yahoo_commodity_futures: the commodities dict, in iteration order
Commodities ==
    << <<"gold", "XAUUSD=X">>, <<"silver", "XAGUSD=X">>, <<"crude_oil", "CL=F">>,
       <<"sugar", "SB=F">>, <<"coffee", "KC=F">>, <<"wheat", "ZW=F">>,
       <<"corn", "ZC=F">> >>

INFLATION == "FP.CPI.TOTL.ZG"
GDP == "NY.GDP.MKTP.KD.ZG"

\* self.api_intervals, in tenths of a second
api_intervals == [ alpha |-> 120, fred |-> 10, yahoo |-> 1, worldbank |-> 10 ]

\* every decorator with the ttl of the World Bank one
ttl_bug(key) == 864000

\* the two Yahoo decorators with ttl=3600
ttl_yahoo_hour(key) ==
    CASE key = "fetch_comprehensive_data" -> 18000
      [] key = "get_yahoo_finance_data" -> 36000
      [] key = "get_yahoo_commodity_futures" -> 36000
      [] OTHER -> 864000

\* the ttl of each @st.cache_data decorator, in tenths of a second
ttl(key) ==
    CASE key = "fetch_comprehensive_data" -> 18000
      [] key = "get_yahoo_finance_data" -> 18000
      [] key = "get_yahoo_commodity_futures" -> 18000
      [] OTHER -> 864000

\* the cache key of get_world_bank_data(indicator): the argument is hashed
wb_key(indicator) ==
    IF indicator = INFLATION THEN "get_world_bank_data(FP.CPI.TOTL.ZG)"
    ELSE "get_world_bank_data(NY.GDP.MKTP.KD.ZG)"

-----------------------------------------------------------------------------
(* Execution state.  A script run is one atomic step of the model; inside  *)
(* it the code is followed statement by statement on a record s holding    *)
(* the mutable state, and every function returns [s, ret, exc]: the state  *)
(* it leaves, its return value, and whether it left by an exception.  A    *)
(* function is written as the chain of its statements, each operator       *)
(* taking the result of the one before.                                    *)

State ==
    [ now |-> now, cache |-> cache, session_state |-> session_state,
      fetcher |-> data_fetcher, requests |-> requests, gate |-> gate,
      calls |-> calls ]

Return(s, v) == [ s |-> s, ret |-> v, exc |-> FALSE ]
Raise(s) == [ s |-> s, ret |-> None, exc |-> TRUE ]

\* time.sleep(d), and any other passage of time inside a run
sleep(s, d) == [s EXCEPT !.now = @ + d]

-----------------------------------------------------------------------------
(* ComprehensiveDataFetcher.__init__                                       *)

\* have_keys: whether st.secrets[...] found both keys (else KeyError, caught)
fetcher_init(s, have_keys) ==
    LET usage == [ alpha_calls |-> 0, fred_calls |-> 0, yahoo_calls |-> 0,
                   last_reset |-> date(s.now) ]
    IN  [s EXCEPT
            !.fetcher = [ api_available |-> have_keys, last_api_call |-> EmptyDict ],
            !.session_state =
                IF "api_usage" \in DOMAIN @ THEN @ ELSE ("api_usage" :> usage)]

-----------------------------------------------------------------------------
(* ComprehensiveDataFetcher.rate_limit_check                               *)

\* history: one more return of rate_limit_check(api_type), at instant t
gate_returned(g, api_type, t) ==
    LET seen == api_type \in DOMAIN g.last
        gap == t - g.last[api_type]
        least == IF api_type \in DOMAIN g.min_gap /\ g.min_gap[api_type] < gap
                 THEN g.min_gap[api_type] ELSE gap
    IN  [ last |-> (api_type :> t) @@ g.last,
          min_gap |-> IF seen THEN (api_type :> least) @@ g.min_gap ELSE g.min_gap ]

\* line 66: self.last_api_call[api_type] = time.time()
rate_limit_stamp(s, api_type) ==
    [s EXCEPT
        !.fetcher.last_api_call = (api_type :> s.now) @@ @,
        !.gate = gate_returned(@, api_type, s.now)]

\* lines 59-64
rate_limit_wait(s, api_type) ==
    LET current_time == s.now
        last_call == get(s.fetcher.last_api_call, api_type, 0)
        interval == get(api_intervals, api_type, 10)
    IN  IF current_time - last_call < interval
        THEN sleep(s, interval - (current_time - last_call))
        ELSE s

rate_limit_check(s, api_type) == rate_limit_stamp(rate_limit_wait(s, api_type), api_type)

-----------------------------------------------------------------------------
(* st.cache_data                                                           *)

\* history: one more call of the cached operation key
called(c, key, rec) ==
    (key :> (IF key \in DOMAIN c THEN << c[key][Len(c[key])], rec >> ELSE << rec >>)) @@ c

\* @st.cache_data(ttl=...), the lookup made when the decorated function is
\* called: an entry is served while it is younger than its ttl
cache_lookup(s, key) ==
    LET had == key \in DOMAIN s.cache
        hit == had /\ s.now - s.cache[key].inserted_at < ttl(key)
        rec == [ at |-> s.now, computed |-> ~hit, had |-> had,
                 inserted_at |-> IF had THEN s.cache[key].inserted_at ELSE 0 ]
    IN  [ hit |-> hit,
          s |-> [s EXCEPT !.calls = called(@, key, rec)],
          value |-> IF hit THEN s.cache[key].value ELSE None ]

\* @st.cache_data(ttl=...), after a miss: the result r = [s, ret, exc] of the
\* decorated function is stored with the instant of the store, unless it raised
cache_store(key, r) ==
    IF r.exc THEN r
    ELSE Return([r.s EXCEPT !.cache =
                    (key :> [ value |-> r.ret, inserted_at |-> r.s.now ]) @@ @],
                r.ret)

\* fetch_comprehensive_data.clear() in its place: the snapshot entry alone
cache_clear_outer_only(s) ==
    [s EXCEPT
        !.cache = [k \in DOMAIN @ \ {"fetch_comprehensive_data"} |-> @[k]],
        !.calls = [k \in DOMAIN @ \ {"fetch_comprehensive_data"} |-> @[k]]]

\* st.cache_data.clear(): every entry of every cached function
cache_clear(s) == [s EXCEPT !.cache = EmptyDict, !.calls = EmptyDict]

-----------------------------------------------------------------------------
(* Upstream outcomes.  A ticker's history(period='5d') returns rows (the   *)
(* last Close is close), returns an empty frame, or raises; a World Bank   *)
(* request yields a first non-null value, yields none (non-200 status,     *)
(* short or all-null payload), or raises (timeout, connection, bad shape). *)

Data(v) == [ k |-> "data", close |-> v ]
Empty == [ k |-> "empty", close |-> 0 ]
Raises == [ k |-> "raise", close |-> 0 ]

\* yf.Ticker(symbol).history(period="5d"): one request, taking lat
history(s, lat) ==
    [s EXCEPT !.now = @ + lat, !.requests.yahoo = @ + 1]

\* requests.get(url, params, timeout=10): one request, taking lat
requests_get(s, lat) ==
    [s EXCEPT !.now = @ + lat, !.requests.worldbank = @ + 1]

-----------------------------------------------------------------------------
(* ComprehensiveDataFetcher.get_yahoo_finance_data                         *)

\* one ticker (lines 77-80, 83-86, 89-92): s is the state after the request,
\* data the dict so far, o what the request did
market_ticker(s, data, field, o) ==
    CASE o.k = "raise" -> Raise(s)
      [] o.k = "empty" -> Return(s, data)
      [] OTHER -> Return(s, (field :> o.close) @@ data)

\* lines 76-92: the tickers from the i-th on; acc = [s, ret, exc]
RECURSIVE market_tickers(_, _, _)
market_tickers(acc, i, in) ==
    IF i > Len(MarketTickers) \/ acc.exc THEN acc
    ELSE market_tickers(
             market_ticker(history(acc.s, in.lat), acc.ret,
                           MarketTickers[i][1], in.mkt[MarketTickers[i][2]]),
             i + 1, in)

\* line 94-95
market_count(r) ==
    IF r.exc THEN r
    ELSE Return([r.s EXCEPT !.session_state["api_usage"]["yahoo_calls"] = @ + 3],
                r.ret)

\* the try block, lines 72-95
market_try(s, in) ==
    market_count(market_tickers(Return(rate_limit_check(s, "yahoo"), EmptyDict), 1, in))

\* the try block without its except clause
market_no_except(r) == r

\* lines 97-99: except Exception: return {}
market_except(r) == IF r.exc THEN Return(r.s, EmptyDict) ELSE r

\* the decorated function, after the lookup e
market_cached(e, in) ==
    IF e.hit THEN Return(e.s, e.value)
    ELSE cache_store("get_yahoo_finance_data", market_except(market_try(e.s, in)))

get_yahoo_finance_data(s, in) ==
    market_cached(cache_lookup(s, "get_yahoo_finance_data"), in)

-----------------------------------------------------------------------------
(* ComprehensiveDataFetcher.get_yahoo_commodity_futures                    *)

\* one symbol (lines 137-158): a symbol that raises is skipped (continue),
\* one with an empty history gets its table price; time.sleep(0.1) follows
\* both other cases
commodity_symbol(s, prices, commodity, o) ==
    CASE o.k = "raise" -> Return(s, prices)
      [] o.k = "empty" ->
            Return(sleep(s, 1), (commodity :> get(WeekendPrices, commodity, 0)) @@ prices)
      [] OTHER -> Return(sleep(s, 1), (commodity :> o.close) @@ prices)

\* lines 136-158: the symbols from the i-th on
RECURSIVE commodity_loop(_, _, _)
commodity_loop(acc, i, in) ==
    IF i > Len(Commodities) THEN acc
    ELSE commodity_loop(
             commodity_symbol(history(acc.s, in.lat), acc.ret,
                              Commodities[i][1], in.com[Commodities[i][2]]),
             i + 1, in)

\* lines 160-161
commodity_count(r) ==
    IF r.exc THEN r
    ELSE Return([r.s EXCEPT !.session_state["api_usage"]["yahoo_calls"] =
                                @ + Len(Commodities)],
                r.ret)

\* the try block, lines 105-161
commodity_try(s, in) ==
    LET current_time == s.now
        is_weekend == weekday(current_time) >= 5
    IN  IF is_weekend THEN Return(s, WeekendPrices)
        ELSE commodity_count(
                 commodity_loop(Return(rate_limit_check(s, "yahoo"), EmptyDict), 1, in))

\* lines 163-174: except Exception: return the table
commodity_except(r) == IF r.exc THEN Return(r.s, WeekendPrices) ELSE r

\* the decorated function, after the lookup e
commodity_cached(e, in) ==
    IF e.hit THEN Return(e.s, e.value)
    ELSE cache_store("get_yahoo_commodity_futures",
                     commodity_except(commodity_try(e.s, in)))

get_yahoo_commodity_futures(s, in) ==
    commodity_cached(cache_lookup(s, "get_yahoo_commodity_futures"), in)

-----------------------------------------------------------------------------
(* ComprehensiveDataFetcher.get_world_bank_data                            *)

\* lines 190-196: s is the state after the request, o what the request did
world_bank_response(s, o) ==
    CASE o.k = "raise" -> Raise(s)
      [] o.k = "empty" -> Return(s, None)
      [] OTHER -> Return(s, Some(o.close))

\* the try block, lines 180-196
world_bank_try(s, indicator, in) ==
    world_bank_response(requests_get(rate_limit_check(s, "worldbank"), in.lat),
                        in.wb[indicator])

\* lines 198-200: except Exception: return None
world_bank_except(r) == IF r.exc THEN Return(r.s, None) ELSE r

\* the decorated function, after the lookup e
world_bank_cached(e, indicator, in) ==
    IF e.hit THEN Return(e.s, e.value)
    ELSE cache_store(wb_key(indicator),
                     world_bank_except(world_bank_try(e.s, indicator, in)))

get_world_bank_data(s, indicator, in) ==
    world_bank_cached(cache_lookup(s, wb_key(indicator)), indicator, in)

-----------------------------------------------------------------------------
(* ComprehensiveDataFetcher.get_current_accurate_data                      *)
(* Each stage takes acc = [s, ret, exc] with ret the data dict so far, and *)
(* the result r of the adapter it called; an exception of an adapter is    *)
(* not caught here and ends the function.                                  *)

\* data['data_sources'].append(name)
append_source(data, name) ==
    [data EXCEPT !["data_sources"] = Append(@, name)]

\* lines 205-220
base_stage(s) ==
    Return(s, ("last_updated" :> strftime(s.now)) @@
              ("data_sources" :> << "Government Data (May 2025)" >>) @@
              BaseData)

\* lines 224-233
market_merge(acc, r) ==
    IF acc.exc THEN acc
    ELSE IF r.exc THEN r
    ELSE IF truthy(r.ret)
    THEN Return(r.s, append_source(r.ret @@ acc.ret, "Yahoo Finance (Markets)"))
    ELSE Return(r.s, FallbackMarket @@ acc.ret)

\* line 223
market_stage(acc, in) == market_merge(acc, get_yahoo_finance_data(acc.s, in))

\* lines 237-253; s is the state when the assembler reads the clock again
commodity_merge(acc, r, s) ==
    IF acc.exc THEN acc
    ELSE IF r.exc THEN r
    ELSE IF truthy(r.ret)
    THEN Return(s, append_source(r.ret @@ acc.ret,
                                 IF weekday(s.now) >= 5
                                 THEN "Yahoo Finance (Last Trading Day)"
                                 ELSE "Yahoo Finance (Live Commodities)"))
    ELSE Return(s, WeekendPrices @@ acc.ret)

\* the adapter has returned r; lat passes before the assembler goes on
commodity_return(acc, r, lat) == commodity_merge(acc, r, sleep(r.s, lat))

\* line 236
commodity_stage(acc, in) ==
    commodity_return(acc, get_yahoo_commodity_futures(acc.s, in), in.lat)

\* `if wb and 0 <= wb <= 15`: not None, not 0.0, and inside the band
wb_accepted(wb) == wb # None /\ wb[1] # 0 /\ 0 <= wb[1] /\ wb[1] <= 1500

\* lines 257-259 and 262-264
world_bank_merge(acc, r, field, name) ==
    IF acc.exc THEN acc
    ELSE IF r.exc THEN r
    ELSE IF wb_accepted(r.ret)
    THEN Return(r.s, append_source((field :> r.ret[1]) @@ acc.ret, name))
    ELSE Return(r.s, acc.ret)

\* lines 256 and 261
world_bank_stage(acc, indicator, field, name, in) ==
    world_bank_merge(acc, get_world_bank_data(acc.s, indicator, in), field, name)

Range(seq) == { seq[i] : i \in DOMAIN seq }

\* line 267: f"Multi-source: {', '.join(set(data['data_sources']))}", kept as
\* the prefix and the set of names joined
summary_stage(acc) ==
    IF acc.exc THEN acc
    ELSE Return(acc.s,
                ("data_source" :> [ prefix |-> "Multi-source",
                                    names |-> Range(acc.ret["data_sources"]) ])
                @@ acc.ret)

get_current_accurate_data(s, in) ==
    summary_stage(
      world_bank_stage(
        world_bank_stage(
          commodity_stage(market_stage(base_stage(s), in), in),
          INFLATION, "inflation_rate", "World Bank (Inflation)", in),
        GDP, "gdp_growth_rate", "World Bank (GDP)", in))

-----------------------------------------------------------------------------
(* IndiaEconomicFactorsTracker                                             *)

\* the decorated function, after the lookup e
fetch_cached(e, in) ==
    IF e.hit THEN Return(e.s, e.value)
    ELSE cache_store("fetch_comprehensive_data", get_current_accurate_data(e.s, in))

fetch_comprehensive_data(s, in) ==
    fetch_cached(cache_lookup(s, "fetch_comprehensive_data"), in)

\* self.periods: label -> (start_months, end_months)
periods ==
    [ p \in { "0-3 months", "3-6 months", "6-9 months", "More than a Year" } |->
        CASE p = "0-3 months" -> << 0, 3 >>
          [] p = "3-6 months" -> << 3, 6 >>
          [] p = "6-9 months" -> << 6, 9 >>
          [] OTHER -> << 12, 24 >> ]

\* pd.date_range(start='2023-06-01', end='2025-05-31', freq='M'): the 24
\* month ends from 2023-06-30 to 2025-05-31, at midnight
date_range ==
    [ i \in 1..24 |->
        LET n == 2023 * 12 + 5 + (i - 1)
            y == n \div 12
            m == (n % 12) + 1
        IN  Timestamp(y, m, days_in_month(y, m), 0) ]

\* a DataFrame with a 'date' column: its rows in order, each with its index
DataFrame(dates) == [ i \in 1..Len(dates) |-> [ index |-> i - 1, date |-> dates[i] ] ]

\* df[mask]: the rows the mask keeps, in order
RECURSIVE boolean_index(_, _)
boolean_index(frame, mask) ==
    IF frame = << >> THEN << >>
    ELSE (IF mask[1] THEN << frame[1] >> ELSE << >>)
         \o boolean_index(Tail(frame), Tail(mask))

\* the label test of filter_by_period left out: an unknown label is looked up
\* like a known one and finds no months
filter_by_period_no_passthrough(frame, period_name, t) ==
    LET known == period_name \in DOMAIN periods
        start_date == IF known THEN minus_months(t, periods[period_name][2]) ELSE t
        end_date == IF known THEN minus_months(t, periods[period_name][1]) ELSE t
    IN  boolean_index(frame,
            [ i \in 1..Len(frame) |->
                frame[i].date >= start_date /\ frame[i].date <= end_date ])

\* the window of filter_by_period with its lower end exclusive
filter_by_period_open_start(frame, period_name, t) ==
    IF period_name \notin DOMAIN periods THEN frame
    ELSE LET start_date == minus_months(t, periods[period_name][2])
             end_date == minus_months(t, periods[period_name][1])
         IN  boolean_index(frame,
                 [ i \in 1..Len(frame) |->
                     frame[i].date > start_date /\ frame[i].date <= end_date ])

\* filter_by_period(df, period_name), called when the clock reads t
filter_by_period(frame, period_name, t) ==
    IF period_name \notin DOMAIN periods THEN frame
    ELSE LET start_months == periods[period_name][1]
             end_months == periods[period_name][2]
             start_date == minus_months(t, end_months)
             end_date == minus_months(t, start_months)
         IN  boolean_index(frame,
                 [ i \in 1..Len(frame) |->
                     frame[i].date >= start_date /\ frame[i].date <= end_date ])

\* the keys create_live_metrics_dashboard subscripts current_data with
DisplayFields ==
    { "inflation_rate", "gdp_growth_rate", "unemployment_rate", "interest_rate",
      "bond_yield_10y", "foreign_reserves", "nifty", "sensex", "exchange_rate",
      "gold", "silver", "crude_oil", "sugar", "coffee", "wheat", "corn",
      "data_source", "last_updated" }

\* st.cache_data.clear() and st.rerun() of a pressed button
button(r) == [ s |-> cache_clear(r.s), ret |-> r.ret, exc |-> FALSE, page |-> "rerun" ]

\* create_live_metrics_dashboard after the fetch r: rendering subscripts the
\* snapshot (a missing key is a KeyError that ends the run); the buttons
\* come last
create_live_metrics_dashboard(r, clicked) ==
    IF r.exc THEN [ s |-> r.s, ret |-> EmptyDict, exc |-> TRUE, page |-> "Exception" ]
    ELSE IF ~(DisplayFields \subseteq DOMAIN r.ret)
    THEN [ s |-> r.s, ret |-> r.ret, exc |-> FALSE, page |-> "KeyError" ]
    ELSE IF clicked THEN button(r)
    ELSE [ s |-> r.s, ret |-> r.ret, exc |-> FALSE, page |-> "rendered" ]

\* main(): build the tracker (and its fetcher), fetch, render
main(s, in, clicked) ==
    create_live_metrics_dashboard(
        fetch_comprehensive_data(fetcher_init(s, secrets), in), clicked)

-----------------------------------------------------------------------------
(* Inputs of a script run: what each upstream request does, and how long   *)
(* a request takes.                                                        *)

LiveClose ==
    [ gold |-> 331250, silver |-> 3315, crude_oil |-> 7810, sugar |-> 1902,
      coffee |-> 23815, wheat |-> 60950, corn |-> 45100 ]

Kinds == { "data", "empty", "raise" }

MarketOutcomes ==
    { ("^NSEI" :> n) @@ ("^BSESN" :> b) @@ ("USDINR=X" :> x) :
        n \in { Data(2475070), Empty, Raises },
        b \in { Data(8145166), Empty, Raises },
        x \in { Data(8357), Data(15000), Empty, Raises } }

Symbols == { Commodities[i][2] : i \in DOMAIN Commodities }
FieldOf(symbol) == (CHOOSE i \in DOMAIN Commodities : Commodities[i][2] = symbol)

Outcome(kind, symbol) ==
    CASE kind = "data" -> Data(LiveClose[Commodities[FieldOf(symbol)][1]])
      [] kind = "empty" -> Empty
      [] OTHER -> Raises

\* every symbol has the outcome common, but for at most MaxDeviations symbols
CommodityOutcomes ==
    { [sym \in Symbols |-> Outcome(IF sym \in D THEN other ELSE common, sym)] :
        <<common, other, D>> \in
            { t \in Kinds \X Kinds \X SUBSET Symbols : Cardinality(t[3]) <= MaxDeviations } }

WorldBankOutcomes ==
    [ {INFLATION, GDP} -> { Data(495), Data(0), Data(1600), Empty, Raises } ]

AllInputs ==
    [ mkt : MarketOutcomes, com : CommodityOutcomes, wb : WorldBankOutcomes,
      lat : Latency ]

\* every request of the run succeeds / finds nothing / raises
Uniform(kind, lat) ==
    [ mkt |-> ("^NSEI" :> (IF kind = "data" THEN Data(2475070) ELSE Outcome(kind, "CL=F")))
              @@ ("^BSESN" :> (IF kind = "data" THEN Data(8145166) ELSE Outcome(kind, "CL=F")))
              @@ ("USDINR=X" :> (IF kind = "data" THEN Data(8357) ELSE Outcome(kind, "CL=F"))),
      com |-> [sym \in Symbols |-> Outcome(kind, sym)],
      wb |-> [i \in {INFLATION, GDP} |->
                 IF kind = "data" THEN Data(495) ELSE Outcome(kind, "CL=F")],
      lat |-> lat ]

Scenarios == { Uniform(kind, lat) : kind \in Kinds, lat \in Latency }

-----------------------------------------------------------------------------
(* The state machine.                                                      *)

Init ==
    /\ now \in StartTimes
    /\ secrets \in BOOLEAN
    /\ cache = EmptyDict
    /\ session_state = EmptyDict
    /\ data_fetcher = [ api_available |-> FALSE, last_api_call |-> EmptyDict ]
    /\ current_data = EmptyDict
    /\ page = "none"
    /\ rerun_pending = FALSE
    /\ runs = 0
    /\ requests = [ alpha |-> 0, fred |-> 0, yahoo |-> 0, worldbank |-> 0 ]
    /\ gate = [ last |-> EmptyDict, min_gap |-> EmptyDict ]
    /\ calls = EmptyDict
    /\ df = << >>
    /\ selected_period = "All Periods"
    /\ filtered = << >>
    /\ refiltered = << >>
    /\ applied = 0

\* the state a script run leaves: r = [s, ret, exc, page]
Install(r) ==
    /\ now' = r.s.now
    /\ cache' = r.s.cache
    /\ session_state' = r.s.session_state
    /\ data_fetcher' = r.s.fetcher
    /\ requests' = r.s.requests
    /\ gate' = r.s.gate
    /\ calls' = r.s.calls
    /\ current_data' = r.ret
    /\ page' = r.page
    /\ rerun_pending' = (r.page = "rerun")
    /\ runs' = runs + 1
    /\ UNCHANGED << secrets, filter_vars >>

\* one script run, started d after the previous one ended
Run(d, in, clicked) ==
    /\ runs < MaxRuns
    /\ Install(main(sleep(State, d), in, clicked))

\* the page is opened, a widget is changed, or a requested rerun runs
PageRun ==
    \E in \in Scenarios :
        \E d \in (IF rerun_pending \/ runs = 0 THEN {0} ELSE Delays) :
            Run(d, in, FALSE)

\* the "Refresh All Data" button of a rendered page (lines 657-659)
ClickRefreshAllData ==
    /\ page = "rendered"
    /\ \E in \in Scenarios : \E d \in Delays : Run(d, in, TRUE)

\* the "Clear Cache" button of a rendered page (lines 661-664)
ClickClearCache ==
    /\ page = "rendered"
    /\ \E in \in Scenarios : \E d \in Delays : Run(d, in, TRUE)

Next == PageRun \/ ClickRefreshAllData \/ ClickClearCache

Spec == Init /\ [][Next]_vars

\* the first script run of a process, under every combination of upstream
\* outcomes
FirstRun ==
    /\ runs = 0
    /\ \E in \in AllInputs : Run(0, in, FALSE)

SnapshotNext == FirstRun

SnapshotSpec == Init /\ [][SnapshotNext]_vars

-----------------------------------------------------------------------------
(* filter_by_period on its own: a series and a clock value are chosen, the *)
(* function is applied to the series, and then once more to its own        *)
(* result, each call reading the clock.                                    *)

\* clock values of the first call: a month end at midnight sharp, a month
\* end at noon (three months back is the shorter February), a leap day, and
\* a day and time of no note
FilterTimes ==
    { Timestamp(2025, 8, 31, 0), Timestamp(2025, 5, 31, DAY \div 2),
      Timestamp(2024, 2, 29, 0), Timestamp(2025, 6, 15, 300345) }

\* dates of the rows of the short series
RowDates ==
    { Timestamp(2025, 8, 31, 0), Timestamp(2025, 5, 31, 0),
      Timestamp(2025, 2, 28, DAY \div 2), Timestamp(2025, 2, 28, 0),
      Timestamp(2024, 8, 31, 0), Timestamp(2023, 8, 31, 0) }

\* the series of generate_historical_data, and every series of at most
\* MaxRows rows, in any order
Series ==
    { DataFrame(date_range) } \cup
    UNION { { DataFrame(dates) : dates \in [1..n -> RowDates] } : n \in 0..MaxRows }

Labels == DOMAIN periods \cup { "All Periods", "unknown-label" }

\* time between the two calls
Elapsed == { 0, 1, 600 }

FilterInit ==
    /\ now \in FilterTimes
    /\ df \in Series
    /\ selected_period = "All Periods"
    /\ filtered = << >>
    /\ refiltered = << >>
    /\ applied = 0
    /\ secrets = FALSE
    /\ cache = EmptyDict
    /\ session_state = EmptyDict
    /\ data_fetcher = [ api_available |-> FALSE, last_api_call |-> EmptyDict ]
    /\ current_data = EmptyDict
    /\ page = "none"
    /\ rerun_pending = FALSE
    /\ runs = 0
    /\ requests = [ alpha |-> 0, fred |-> 0, yahoo |-> 0, worldbank |-> 0 ]
    /\ gate = [ last |-> EmptyDict, min_gap |-> EmptyDict ]
    /\ calls = EmptyDict

\* filtered = filter_by_period(df, label)
Filter ==
    /\ applied = 0
    /\ \E label \in Labels :
          /\ selected_period' = label
          /\ filtered' = filter_by_period(df, label, now)
    /\ applied' = 1
    /\ UNCHANGED << now, df, refiltered, secrets, cache, session_state, data_fetcher,
                    current_data, page, rerun_pending, runs, requests, gate, calls >>

\* refiltered = filter_by_period(filtered, selected_period), some time later
FilterAgain ==
    /\ applied = 1
    /\ \E d \in Elapsed :
          /\ now' = now + d
          /\ refiltered' = filter_by_period(filtered, selected_period, now + d)
    /\ applied' = 2
    /\ UNCHANGED << df, selected_period, filtered, secrets, cache, session_state,
                    data_fetcher, current_data, page, rerun_pending, runs, requests,
                    gate, calls >>

FilterNext == Filter \/ FilterAgain

FilterSpec == FilterInit /\ [][FilterNext]_vars

-----------------------------------------------------------------------------
(* Vocabulary of the properties.                                           *)

OUTER == "fetch_comprehensive_data"
MARKET == "get_yahoo_finance_data"
COMMODITY == "get_yahoo_commodity_futures"

AllKeys == { OUTER, MARKET, COMMODITY, wb_key(INFLATION), wb_key(GDP) }

\* the ttl the documentation gives each cached operation, in tenths of a second
ClaimedTtl(key) == IF key \in { OUTER, MARKET, COMMODITY } THEN 1800 * 10 ELSE 86400 * 10

\* the last call of a cached operation since the last clear()
LastCall(key) == calls[key][Len(calls[key])]

\* the fallback constant of every numeric field
Baseline == FallbackMarket @@ WeekendPrices @@ BaseData

NumericFields == DisplayFields \ { "data_source", "last_updated" }

\* a first script run has completed, so every adapter was invoked once and
\* its return value is the cache entry
Assembled == runs = 1 /\ AllKeys \subseteq DOMAIN cache

MarketReturn == cache[MARKET].value
CommodityReturn == cache[COMMODITY].value
WorldBankReturn(indicator) == cache[wb_key(indicator)].value

\* the commodity adapter took the weekday path (it read a weekday)
FetchPath == weekday(calls[COMMODITY][1].at) < 5

\* no ticker of the market adapter delivered a value
MarketFailed == MarketReturn = EmptyDict

\* the commodity adapter asked for every symbol and no symbol delivered a price
\* (the live prices of the inputs differ from the table prices)
CommodityLive == \E c \in DOMAIN CommodityReturn : CommodityReturn[c] # WeekendPrices[c]
CommodityFailed == FetchPath /\ ~CommodityLive

SourceNames == current_data["data_source"].names

-----------------------------------------------------------------------------
(* C1: after any first run, whatever each ticker and each World Bank call  *)
(* did, the snapshot holds every field the display layer reads.            *)
C1_EveryDisplayFieldPresent ==
    Assembled => DisplayFields \subseteq DOMAIN current_data

(* C2: no exception escapes the snapshot assembly: whatever fails          *)
(* upstream, fetch_comprehensive_data returns a snapshot (which is then    *)
(* the cached one) and the run does not end in the error state.            *)
C2_NoExceptionEscapes ==
    runs > 0 =>
        /\ page # "Exception"
        /\ OUTER \in DOMAIN cache
        /\ current_data = cache[OUTER].value
        /\ "data_source" \in DOMAIN current_data

\* a run in which the first market ticker raised (one Yahoo request, none
\* counted, weekend so no commodity request) and both World Bank calls
\* gave None, and which still rendered a snapshot
C2_Witness ==
    /\ Assembled
    /\ ~FetchPath
    /\ requests.yahoo = 1
    /\ WorldBankReturn(INFLATION) = None
    /\ WorldBankReturn(GDP) = None
    /\ page = "rendered"

(* C3: for every cached operation, a call that finds an entry younger than *)
(* the ttl does not run the compute, so of two calls less than ttl apart   *)
(* with no clear() between at most one runs it; a call that finds an entry *)
(* of age ttl or more runs the compute again.                              *)
C3_CacheHitWithinTtl ==
    \A key \in DOMAIN calls :
        LET c == calls[key]
            last == LastCall(key)
        IN  /\ (last.had /\ last.at - last.inserted_at >= ClaimedTtl(key)) => last.computed
            /\ (last.had /\ last.at - last.inserted_at < ClaimedTtl(key)) => ~last.computed
            /\ (Len(c) = 2 /\ c[2].at - c[1].at < ClaimedTtl(key)) =>
                    ~(c[1].computed /\ c[2].computed)

\* the snapshot was computed, then asked for again after its 30 minutes and
\* computed again, while the World Bank entry (24 hours) was served
C3_Witness ==
    /\ OUTER \in DOMAIN calls /\ wb_key(INFLATION) \in DOMAIN calls
    /\ Len(calls[OUTER]) = 2
    /\ calls[OUTER][1].computed /\ calls[OUTER][2].computed /\ calls[OUTER][2].had
    /\ Len(calls[wb_key(INFLATION)]) = 2
    /\ ~calls[wb_key(INFLATION)][2].computed

\* the last script run was the first one after a clear()
AfterClear == runs >= 2 /\ OUTER \in DOMAIN calls /\ Len(calls[OUTER]) = 1

(* C4: a pressed button leaves no cache entry at all, and the run that     *)
(* follows computes the snapshot and invokes every adapter anew.           *)
C4_ClearDropsEverything ==
    /\ rerun_pending => cache = EmptyDict
    /\ AfterClear =>
          \A key \in AllKeys :
              key \in DOMAIN calls /\ LastCall(key).computed /\ ~LastCall(key).had

\* three runs: the page was opened, a button was pressed 0.3 s after it was
\* rendered, and the rerun recomputed all five entries
C4_Witness ==
    /\ runs = 3
    /\ AfterClear
    /\ \A key \in AllKeys : key \in DOMAIN calls /\ LastCall(key).computed
    /\ requests.worldbank = 4

(* C5: when the market fetch fails, the commodity fetch fails and both     *)
(* World Bank calls give None, data_source names no live source and every  *)
(* numeric field has its fallback constant.                                *)
C5_AllFailedIsFallbackOnly ==
    ( /\ Assembled
      /\ MarketFailed
      /\ CommodityFailed
      /\ WorldBankReturn(INFLATION) = None
      /\ WorldBankReturn(GDP) = None )
    => /\ SourceNames \subseteq { "Government Data (May 2025)" }
       /\ \A f \in NumericFields :
              f \in DOMAIN current_data /\ current_data[f] = Baseline[f]

(* C6: a source is named in the provenance only if it contributed at least *)
(* one live-fetched value to the snapshot.                                 *)
C6_ProvenanceOnlyLive ==
    Assembled =>
        /\ "Yahoo Finance (Markets)" \in SourceNames => ~MarketFailed
        /\ "Yahoo Finance (Live Commodities)" \in SourceNames => CommodityLive
        /\ "Yahoo Finance (Last Trading Day)" \in SourceNames => CommodityLive
        /\ "World Bank (Inflation)" \in SourceNames => WorldBankReturn(INFLATION) # None
        /\ "World Bank (GDP)" \in SourceNames => WorldBankReturn(GDP) # None

(* C7: a fetched value outside its band never reaches the snapshot: the    *)
(* exchange rate of a snapshot lies in [70, 95], its inflation and GDP     *)
(* growth in [0, 15].                                                      *)
C7_OutOfBandDiscarded ==
    Assembled =>
        /\ "exchange_rate" \in DOMAIN current_data =>
              (7000 <= current_data["exchange_rate"] /\ current_data["exchange_rate"] <= 9500)
        /\ 0 <= current_data["inflation_rate"] /\ current_data["inflation_rate"] <= 1500
        /\ 0 <= current_data["gdp_growth_rate"] /\ current_data["gdp_growth_rate"] <= 1500

(* C8: for every source, two consecutive returns of rate_limit_check are   *)
(* at least the source's interval apart, across script runs too.           *)
C8_MinIntervalBetweenCalls ==
    \A api_type \in DOMAIN gate.min_gap :
        gate.min_gap[api_type] >= api_intervals[api_type]

(* C9: once the Yahoo counter has reached the ceiling on the date of its   *)
(* last reset, no further Yahoo request is issued on that date; and a      *)
(* request is only issued with the counter reset on the date of the run    *)
(* (a run may end on the day after its reset).                             *)
C9_DailyBudget ==
    [][ "api_usage" \in DOMAIN session_state =>
          LET usage == session_state["api_usage"]
          IN  /\ (usage.yahoo_calls >= DailyCeiling /\ usage.last_reset = date(now'))
                    => requests'.yahoo = requests.yahoo
              /\ requests'.yahoo > requests.yahoo
                    => session_state'["api_usage"].last_reset >= date(now') - 1 ]_vars

(* C10: without API keys the fetcher is built, no request goes to any      *)
(* upstream source and the snapshot holds fallback constants only.         *)
C10_NoKeysNoNetwork ==
    ~secrets =>
        /\ page # "Exception"
        /\ requests.yahoo = 0 /\ requests.worldbank = 0
        /\ \A f \in NumericFields \cap DOMAIN current_data : current_data[f] = Baseline[f]

\* the rows of df inside the window the label names, the clock reading now
InWindow(row) ==
    /\ minus_months(now, periods[selected_period][2]) <= row.date
    /\ row.date <= minus_months(now, periods[selected_period][1])

(* C11: with a label that is not a configured period, filter_by_period     *)
(* returns its input unchanged - same rows, same order - on the first call *)
(* and on the call over its own result.                                    *)
C11_UnknownLabelPassThrough ==
    selected_period \notin DOMAIN periods =>
        /\ applied >= 1 => filtered = df
        /\ applied = 2 => refiltered = filtered

\* the 24-row series went through both calls with a label no period has
C11_Witness ==
    /\ applied = 2
    /\ selected_period = "unknown-label"
    /\ Len(df) = 24
    /\ refiltered = df

(* C12: filtering the result of a filter again with the same label gives   *)
(* the same result.                                                        *)
C12_Idempotent ==
    applied = 2 => refiltered = filtered

(* C13: with a configured label (a, b), the result holds exactly the rows  *)
(* whose date lies in [now - b months, now - a months], both ends          *)
(* included, in the order they have in the input.                          *)
C13_ExactWindow ==
    (applied = 1 /\ selected_period \in DOMAIN periods) =>
        /\ { filtered[i] : i \in DOMAIN filtered }
              = { df[i] : i \in { j \in DOMAIN df : InWindow(df[j]) } }
        /\ \A i, j \in DOMAIN filtered : i < j => filtered[i].index < filtered[j].index

\* at midnight of 2025-08-31, '0-3 months' of the 24-row series keeps its
\* last row alone, dated 2025-05-31 00:00:00, the lower end of the window
C13_Witness ==
    /\ applied = 1
    /\ selected_period = "0-3 months"
    /\ now = Timestamp(2025, 8, 31, 0)
    /\ Len(df) = 24
    /\ Len(filtered) = 1
    /\ filtered[1] = df[24]
    /\ filtered[1].date = minus_months(now, 3)

(* C14: a Yahoo entry is stored no later than the snapshot entry it was    *)
(* computed for and is gone whenever that one is, so every call of a Yahoo *)
(* adapter - they are called only while the snapshot is computed - runs    *)
(* the adapter: a recomputed snapshot never holds market or commodity      *)
(* values of an earlier cycle.                                             *)
C14_YahooNeverReused ==
    \A key \in { MARKET, COMMODITY } :
        /\ key \in DOMAIN cache =>
              /\ OUTER \in DOMAIN cache
              /\ cache[key].inserted_at <= cache[OUTER].inserted_at
        /\ key \in DOMAIN calls =>
              /\ \A i \in DOMAIN calls[key] : calls[key][i].computed
              /\ LastCall(OUTER).computed => LastCall(key).at >= LastCall(OUTER).at

\* the snapshot expired and was computed again: both Yahoo adapters found
\* their expired entries and ran again, the World Bank entries were served
C14_Witness ==
    /\ AllKeys \subseteq DOMAIN calls
    /\ Len(calls[OUTER]) = 2 /\ calls[OUTER][2].had /\ calls[OUTER][2].computed
    /\ \A key \in { MARKET, COMMODITY } :
          Len(calls[key]) = 2 /\ calls[key][2].had /\ calls[key][2].computed
    /\ \A i \in { INFLATION, GDP } :
          Len(calls[wb_key(i)]) = 2 /\ ~calls[wb_key(i)][2].computed

(* C15: the session counter yahoo_calls equals the number of Yahoo ticker  *)
(* requests issued since the session began.                                *)
C15_YahooCallsCounted ==
    "api_usage" \in DOMAIN session_state =>
        session_state["api_usage"].yahoo_calls = requests.yahoo

(* C16: a snapshot names 'Yahoo Finance (Last Trading Day)' exactly when   *)
(* the commodity adapter took its weekend branch, and 'Yahoo Finance (Live *)
(* Commodities)' exactly when it took the weekday fetch path.  Stated for  *)
(* the snapshots whose commodity values the adapter returned (when every   *)
(* symbol raised the adapter returns no price and the assembler adds       *)
(* neither name).                                                          *)
C16_WeekendLabelConsistent ==
    (Assembled /\ truthy(CommodityReturn)) =>
        /\ "Yahoo Finance (Last Trading Day)" \in SourceNames <=> ~FetchPath
        /\ "Yahoo Finance (Live Commodities)" \in SourceNames <=> FetchPath

=============================================================================
